---- MODULE Spec2Model ----
(***************************************************************************)
(* Model of dbfs.py: DatabaseFS, a filesystem whose files are database     *)
(* rows, and DBFile, the in-memory buffer of an open file.                 *)
(*                                                                         *)
(* Strings are sequences of one-character strings, so that normalisation   *)
(* and prefix tests are computed character by character as the code does.  *)
(***************************************************************************)
EXTENDS Integers, Sequences, FiniteSets, TLC

VARIABLES
    now,         \* time.time(), in whole time units
    lastUpdate,  \* DatabaseFS.lastUpdate
    listing,     \* DatabaseFS.listing : path -> [size, fid]
    openfiles,   \* DatabaseFS.openfiles : path -> DBFile (a handle id)
    files,       \* the DBFile objects, by handle id
    dbList,      \* the rows the listing query returns at present
    db,          \* the table behind readcmd / writecmd : fid -> content
    last,        \* the last call: operation, result, warning logged
    rt,          \* progress of an open(r+) / write / close / open(r) sequence
    tpc,         \* per thread: position inside _getlisting
    tacc,        \* per thread: the dict under construction
    tret,        \* per thread: the listing _getlisting returned
    cur,         \* the shared cursor: rows not yet fetched
    curRowcount, \* the shared cursor: rowcount of its last execute
    tloc         \* per thread: the open in progress and the query result due

vars == <<now, lastUpdate, listing, openfiles, files, dbList, db, last, rt,
          tpc, tacc, tret, cur, curRowcount, tloc>>


----------------------------------------------------------------------------
(* Bounds *)

MaxLen == 2
MaxTime == 4
MaxHandles == 2
MaxWrites == 2
NumThreads == 2

(* Program constants *)

TTL == 1

----------------------------------------------------------------------------
(* Strings *)

Str_ab == <<"a", "/", "b", ".", "t", "x", "t">>
Str_byid == <<"b", "y", "i", "d", "/", "1">>
Str_abs_ab == <<"/">> \o Str_ab
Str_dup_ab == <<"a", "/", "/", ".", "/", "b", ".", "t", "x", "t">>
Str_root == <<"/">>
Str_a == <<"a">>
Str_dotdot == <<"x", "/", ".", ".", "/", "b", "y", "i", "d", "/", "1", "/">>
Str_c == <<"c">>
Str_abc == <<"a", "b", "/", "c">>
Str_def == <<"d", "/", "e", "/", "f">>
Str_de == <<"d", "/", "e">>
Str_d == <<"d">>

Bytes == {"x"}

RECURSIVE SeqsUpTo(_)
SeqsUpTo(n) ==
    IF n = 0 THEN {<<>>}
    ELSE LET S == SeqsUpTo(n - 1)
         IN S \cup {Append(s, b) : s \in {t \in S : Len(t) = n - 1}, b \in Bytes}

Content == SeqsUpTo(MaxLen)

startswith(s, prefix) ==
    /\ Len(prefix) <= Len(s)
    /\ SubSeq(s, 1, Len(prefix)) = prefix

RECURSIVE lstrip(_)
lstrip(s) ==
    IF s # <<>> /\ Head(s) = "/" THEN lstrip(Tail(s)) ELSE s

RECURSIVE rstrip(_)
rstrip(s) ==
    IF s # <<>> /\ s[Len(s)] = "/" THEN rstrip(SubSeq(s, 1, Len(s) - 1)) ELSE s

RECURSIVE SplitAcc(_, _, _)
SplitAcc(s, comp, acc) ==
    IF s = <<>> THEN Append(acc, comp)
    ELSE IF Head(s) = "/" THEN SplitAcc(Tail(s), <<>>, Append(acc, comp))
    ELSE SplitAcc(Tail(s), Append(comp, Head(s)), acc)

split(s) == SplitAcc(s, <<>>, <<>>)

RECURSIVE join(_)
join(comps) ==
    IF comps = <<>> THEN <<>>
    ELSE IF Len(comps) = 1 THEN comps[1]
    ELSE comps[1] \o <<"/">> \o join(Tail(comps))

RECURSIVE NormComps(_, _)
NormComps(comps, new) ==
    IF comps = <<>> THEN new
    ELSE LET c == Head(comps) IN
         IF c = <<>> \/ c = <<".">> THEN NormComps(Tail(comps), new)
         ELSE IF c # <<".", ".">> \/ (new # <<>> /\ new[Len(new)] = <<".", ".">>)
              THEN NormComps(Tail(comps), Append(new, c))
         ELSE IF new # <<>>
              THEN NormComps(Tail(comps), SubSeq(new, 1, Len(new) - 1))
         ELSE NormComps(Tail(comps), new)

\* os.path.normpath of a path that starts with exactly one "/"
normpath(s) == <<"/">> \o join(NormComps(split(s), <<>>))

abspath(path) == normpath(<<"/">> \o lstrip(path))

----------------------------------------------------------------------------
(* The record store *)

Fids == {1, 2}

NoRow == <<"NoRow">>
ManyRows == <<"ManyRows">>

Row(f, p, s) == [fid |-> f, path |-> p, size |-> s]

ListingResults ==
    { <<>>,
      <<Row(1, Str_ab, 3), Row(1, Str_byid, 3)>>,
      <<Row(2, Str_ab, 4), Row(1, Str_byid, 3)>>,
      <<Row(1, Str_abs_ab, 3), Row(2, Str_dup_ab, 4)>> }

RawPaths == {Str_ab, Str_abs_ab, Str_byid, Str_dotdot, Str_root, Str_a, Str_c}

ModeR == <<"r">>
ModeRW == <<"r", "+">>
ModeW == <<"w">>
ModeA == <<"a">>
Modes == {ModeR, ModeRW, ModeW, ModeA}

\* Python's  c in mode
InMode(c, mode) == \E i \in 1..Len(mode) : mode[i] = c

Handles == 1..MaxHandles
Threads == 1..NumThreads

\* rows a query keyed by fid matches
rowcount(store, fid) ==
    IF store[fid] = NoRow THEN 0 ELSE IF store[fid] = ManyRows THEN 2 ELSE 1

\* a write query that never reaches the table
WriteQueryNoop(store, data, fid) == store

\* the table after "UPDATE ... SET col = data WHERE id = fid"
WriteQuery(store, data, fid) ==
    IF store[fid] \in {NoRow, ManyRows} THEN store
    ELSE [store EXCEPT ![fid] = data]

----------------------------------------------------------------------------
(* DatabaseFS._getlisting *)

EmptyListing == [k \in {} |-> [size |-> 0, fid |-> 0]]

RECURSIVE MakeListing(_)
MakeListing(rows) ==
    IF rows = <<>> THEN EmptyListing
    ELSE LET r == rows[Len(rows)]
             rest == MakeListing(SubSeq(rows, 1, Len(rows) - 1))
             p == abspath(r.path)
         IN [k \in (DOMAIN rest) \cup {p} |->
                IF k = p THEN [size |-> r.size, fid |-> r.fid] ELSE rest[k]]

\* a cache that is already stale at the TTL
ExpiredAtTTL(t, lu) == t - lu >= TTL

Expired(t, lu) == t - lu > TTL

\* the cache after one call of _getlisting on cache c, and the queries issued
GetListing(c) ==
    IF Expired(now, c.lastUpdate)
    THEN [listing |-> MakeListing(dbList), lastUpdate |-> now,
          q |-> c.q \o <<"list">>]
    ELSE c

Cache == [listing |-> listing, lastUpdate |-> lastUpdate, q |-> <<>>]

\* the cache after a call of _getlisting whose listing query raises: the
\* stamp of line 156 is already set when execute fails on line 157
GetListingFailed(c) ==
    [listing |-> c.listing, lastUpdate |-> now, q |-> c.q \o <<"list">>]

----------------------------------------------------------------------------
(* DBFile *)

\* pending counts write() calls minus write-back queries of the DBFile
FreeFile ==
    [st |-> "free", path |-> <<>>, mode |-> ModeR, buf |-> <<>>, pos |-> 0,
     modified |-> FALSE, pending |-> 0]

\* a DBFile seeded with the data in every mode
DBFileInitSeedAlways(data, path, mode) ==
    [st |-> "open", path |-> path, mode |-> mode, buf |-> data, pos |-> 0,
     modified |-> FALSE, pending |-> 0]

\* a DBFile whose position starts at the end of the seeded buffer
DBFileInitAtEnd(data, path, mode) ==
    [st |-> "open", path |-> path, mode |-> mode,
     buf |-> IF ~InMode("w", mode) THEN data ELSE <<>>,
     pos |-> IF ~InMode("w", mode) THEN Len(data) ELSE 0,
     modified |-> FALSE, pending |-> 0]

\* DBFile.__init__: StringIO starts at position 0, and seek(0) keeps it there
DBFileInit(data, path, mode) ==
    [st |-> "open", path |-> path, mode |-> mode,
     buf |-> IF ~InMode("w", mode) THEN data ELSE <<>>,
     pos |-> IF mode = ModeR \/ InMode("+", mode) THEN 0 ELSE 0,
     modified |-> FALSE, pending |-> 0]

\* a write that leaves the old tail of the buffer in place
StringIOWriteNoTruncate(buf, pos, data) ==
    [buf |-> SubSeq(buf, 1, pos) \o data
             \o SubSeq(buf, pos + Len(data) + 1, Len(buf)),
     pos |-> pos + Len(data)]

\* StringIO.write(data) followed by truncate(): buffer and position
StringIOWrite(buf, pos, data) ==
    [buf |-> SubSeq(buf, 1, pos) \o data, pos |-> pos + Len(data)]

\* a test that only knows the binary read mode
ReadOnlyBinary(mode) == mode = <<"r", "b">>

ReadOnly(mode) == mode = ModeR

\* a flush that does not look at the modified flag
AlwaysSync(f) == TRUE

\* DBFile.flush: is the buffer to be written back?
NeedsSync(f) == f.modified

\* a flush_callback that raises when no row was modified
AfterWriteStrict(rc) == IF rc = 0 THEN "NotFound" ELSE "ok"

\* flush_callback after the write query: the result for every row count
AfterWrite(rc) == "ok"

\* a lookup that takes any key below path for path
LookupPrefix(lst, path) ==
    IF \E k \in DOMAIN lst : startswith(k, path)
    THEN [found |-> TRUE,
          fid |-> lst[CHOOSE k \in DOMAIN lst : startswith(k, path)].fid]
    ELSE [found |-> FALSE, fid |-> 0]

\* listing[path]['fid'], or KeyError
Lookup(lst, path) ==
    IF path \in DOMAIN lst THEN [found |-> TRUE, fid |-> lst[path].fid]
    ELSE [found |-> FALSE, fid |-> 0]

\* DBFile.write on DBFile f
WriteOutcome(f, data) ==
    IF ReadOnly(f.mode) THEN [res |-> "ResourceInvalid", f |-> f]
    ELSE IF f.st = "closed"
    THEN [res |-> "ValueError", f |-> [f EXCEPT !.modified = TRUE]]
    ELSE LET w == StringIOWrite(f.buf, f.pos, data)
         IN [res |-> "ok",
             f |-> [f EXCEPT !.modified = TRUE, !.buf = w.buf, !.pos = w.pos,
                             !.pending = f.pending + 1]]

\* DBFile.flush on DBFile f with cache c and table store
FlushOutcome(f, c, store) ==
    LET same == [res |-> "ok", c |-> c, db |-> store, f |-> f, wfid |-> 0,
                 warn |-> "none"] IN
    IF ReadOnly(f.mode) THEN same
    ELSE IF ~NeedsSync(f) THEN same
    ELSE IF f.st = "closed" THEN [same EXCEPT !.res = "ValueError"]
    ELSE LET path == abspath(f.path)
             g == GetListing(c)
             l == Lookup(g.listing, path)
         IN IF ~l.found
            THEN [same EXCEPT !.res = "NotFound", !.c = g]
            ELSE LET fid == l.fid
                     rc == rowcount(store, fid)
                     res == AfterWrite(rc)
                 IN [res |-> res,
                     c |-> [g EXCEPT !.q = g.q \o <<"write">>],
                     db |-> WriteQuery(store, f.buf, fid),
                     f |-> [f EXCEPT !.modified = IF res = "ok" THEN FALSE ELSE TRUE,
                                     !.pending = f.pending - 1],
                     wfid |-> fid,
                     warn |-> IF rc = 0 THEN "lost" ELSE "none"]

Without(fn, k) == [x \in (DOMAIN fn) \ {k} |-> fn[x]]
With(fn, k, v) == [x \in (DOMAIN fn) \cup {k} |-> IF x = k THEN v ELSE fn[x]]

\* close_callback
CloseCallback(of, path) == IF path \in DOMAIN of THEN Without(of, path) ELSE of

\* a close that releases and deregisters whether or not flush raised
CloseOutcomeFinally(f, c, store, of) ==
    LET o == FlushOutcome(f, c, store) IN
    [res |-> o.res, c |-> o.c, db |-> o.db,
     f |-> [o.f EXCEPT !.st = "closed", !.buf = <<>>, !.pos = 0],
     of |-> CloseCallback(of, f.path),
     wfid |-> o.wfid, warn |-> o.warn]

\* DBFile.close on DBFile f: flush, StringIO.close, close_callback
CloseOutcome(f, c, store, of) ==
    LET o == FlushOutcome(f, c, store) IN
    IF o.res # "ok"
    THEN [res |-> o.res, c |-> o.c, db |-> o.db, f |-> o.f, of |-> of,
          wfid |-> o.wfid, warn |-> o.warn]
    ELSE [res |-> "ok", c |-> o.c, db |-> o.db,
          f |-> [o.f EXCEPT !.st = "closed", !.buf = <<>>, !.pos = 0],
          of |-> CloseCallback(of, f.path),
          wfid |-> o.wfid,
          warn |-> IF o.warn = "lost" THEN "lost"
                   ELSE IF f.path \notin DOMAIN of THEN "notopen" ELSE "none"]

----------------------------------------------------------------------------
(* DatabaseFS operations *)

IsFileVal(lst, path) == path \in DOMAIN lst

\* a directory test on the characters of the path alone
IsDirCharPrefix(lst, p) == \E fn \in DOMAIN lst : startswith(fn, abspath(p))

IsDirVal(lst, p) ==
    LET path0 == abspath(p) \o <<"/">>
        path == IF path0 = <<"/", "/">> THEN <<"/">> ELSE path0
    IN \E fn \in DOMAIN lst : startswith(fn, path)

IsFileOutcome(p, c) ==
    LET g == GetListing(c) IN [val |-> IsFileVal(g.listing, abspath(p)), c |-> g]

IsDirOutcome(p, c) ==
    LET g == GetListing(c) IN [val |-> IsDirVal(g.listing, p), c |-> g]

\* the size getinfo reports for a file
SizeOf(path, lst, of, fs) ==
    IF path \in DOMAIN of THEN Len(fs[of[path]].buf) ELSE lst[path].size

\* getinfo: the info dict, or the error raised
GetInfoOutcome(p, c) ==
    LET path == abspath(p)
        o1 == IsFileOutcome(path, c)
    IN IF o1.val
       THEN LET g2 == GetListing(o1.c) IN
            IF path \notin DOMAIN g2.listing
            THEN [res |-> "NotFound", val |-> <<>>, c |-> g2]
            ELSE [res |-> "ok", c |-> g2,
                  val |-> [size |-> SizeOf(path, g2.listing, openfiles, files),
                           st_mode |-> 420]]
       ELSE LET o2 == IsDirOutcome(path, o1.c) IN
            IF o2.val
            THEN [res |-> "ok", val |-> [st_mode |-> 493], c |-> o2.c]
            ELSE [res |-> "NotFound", val |-> <<>>, c |-> o2.c]

\* listdir without wildcard: how many times each name is returned
ListDirOutcome(p, dirs_only, files_only, c) ==
    LET path0 == abspath(p) \o <<"/">>
        path == IF path0 = <<"/", "/">> THEN <<"/">> ELSE path0
        g == GetListing(c)
        subtree == {SubSeq(fn, Len(path) + 1, Len(fn)) :
                       fn \in {k \in DOMAIN g.listing : startswith(k, path)}}
        hasSlash(fn) == \E i \in 1..Len(fn) : fn[i] = "/"
        fileNames == {fn \in subtree : ~hasSlash(fn)}
        dirNames == {split(fn)[1] : fn \in {x \in subtree : hasSlash(x)}}
        inFiles(n) == IF n \in fileNames /\ ~dirs_only THEN 1 ELSE 0
        inDirs(n) == IF n \in dirNames /\ ~files_only THEN 1 ELSE 0
        names == {n \in fileNames \cup dirNames : inFiles(n) + inDirs(n) > 0}
    IN [val |-> [n \in names |-> inFiles(n) + inDirs(n)], c |-> g]

\* open: the error raised, or the DBFile created and registered
OpenOutcome(p, mode, h, c) ==
    LET path == abspath(p)
        g == GetListing(c)
        l == Lookup(g.listing, path)
        fail(res, q) ==
            [res |-> res, c |-> [g EXCEPT !.q = q], files |-> files,
             openfiles |-> openfiles, fid |-> 0]
    IN IF ~l.found THEN fail("NotFound", g.q)
       ELSE LET fid == l.fid
                q == g.q \o <<"read">>
            IN IF rowcount(db, fid) = 0 THEN fail("NameError", q)
               ELSE IF rowcount(db, fid) > 1 THEN fail("NameError", q)
               ELSE [res |-> "ok", c |-> [g EXCEPT !.q = q],
                     files |-> [files EXCEPT ![h] = DBFileInit(db[fid], path, mode)],
                     openfiles |-> With(openfiles, path, h),
                     fid |-> fid]

----------------------------------------------------------------------------
(* Bookkeeping: the last call, and the round trip under observation *)

Call(op, res, warn) == [op |-> op, res |-> res, warn |-> warn]

NoCall == Call("none", "ok", "none")

RtIdle ==
    [st |-> "idle", h |-> 0, path |-> <<>>, fid |-> 0, old |-> <<>>,
     data |-> <<>>, wbFid |-> 0, path2 |-> <<>>, fid2 |-> 0, got |-> <<>>]

RtOff == [RtIdle EXCEPT !.st = "off"]

\* a finished or broken round trip is forgotten
RtReset == IF rt.st = "off" THEN rt ELSE RtIdle
RtKeep == IF rt.st = "reopened" THEN RtIdle ELSE rt

----------------------------------------------------------------------------
(* One call of each operation *)

\* what a call made outside the threads leaves alone
thrVars == <<tpc, tacc, tret, cur, curRowcount, tloc>>

IsFile(p) ==
    LET o == IsFileOutcome(p, Cache)
    IN /\ listing' = o.c.listing
       /\ lastUpdate' = o.c.lastUpdate
       /\ last' = Call("isfile", "ok", "none")
       /\ rt' = RtKeep
       /\ UNCHANGED <<now, openfiles, files, dbList, db, thrVars>>

IsDir(p) ==
    LET o == IsDirOutcome(p, Cache)
    IN /\ listing' = o.c.listing
       /\ lastUpdate' = o.c.lastUpdate
       /\ last' = Call("isdir", "ok", "none")
       /\ rt' = RtKeep
       /\ UNCHANGED <<now, openfiles, files, dbList, db, thrVars>>

ListDir(p, dirs_only, files_only) ==
    LET o == ListDirOutcome(p, dirs_only, files_only, Cache)
    IN /\ listing' = o.c.listing
       /\ lastUpdate' = o.c.lastUpdate
       /\ last' = Call("listdir", "ok", "none")
       /\ rt' = RtKeep
       /\ UNCHANGED <<now, openfiles, files, dbList, db, thrVars>>

GetInfo(p) ==
    LET o == GetInfoOutcome(p, Cache)
    IN /\ listing' = o.c.listing
       /\ lastUpdate' = o.c.lastUpdate
       /\ last' = Call("getinfo", o.res, "none")
       /\ rt' = RtKeep
       /\ UNCHANGED <<now, openfiles, files, dbList, db, thrVars>>

Open(p, mode, h) ==
    /\ files[h].st # "open"
    /\ LET o == OpenOutcome(p, mode, h, Cache)
       IN /\ listing' = o.c.listing
          /\ lastUpdate' = o.c.lastUpdate
          /\ files' = o.files
          /\ openfiles' = o.openfiles
          /\ last' = Call("open", o.res, "none")
          /\ rt' = IF rt.st = "off" \/ o.res # "ok" THEN RtKeep
                   ELSE IF mode = ModeRW
                   THEN [RtIdle EXCEPT !.st = "opened", !.h = h,
                                       !.path = abspath(p), !.fid = o.fid,
                                       !.old = o.files[h].buf]
                   ELSE IF mode = ModeR /\ rt.st = "closed"
                   THEN [rt EXCEPT !.st = "reopened", !.path2 = abspath(p),
                                   !.fid2 = o.fid, !.got = o.files[h].buf]
                   ELSE RtKeep
    /\ UNCHANGED <<now, dbList, db, thrVars>>

Write(h, data) ==
    LET f == files[h]
        o == WriteOutcome(f, data)
    IN /\ f.st # "free"
       /\ o.res = "ok" => (f.pending < MaxWrites /\ Len(o.f.buf) <= MaxLen)
       /\ files' = [files EXCEPT ![h] = o.f]
       /\ last' = Call("write", o.res, "none")
       /\ rt' = IF rt.st # "off" /\ rt.h = h
                THEN IF rt.st = "opened" /\ o.res = "ok"
                     THEN [rt EXCEPT !.st = "written", !.data = data]
                     ELSE RtIdle
                ELSE RtKeep
       /\ UNCHANGED <<now, lastUpdate, listing, openfiles, dbList, db,
                      thrVars>>

Flush(h) ==
    LET f == files[h]
        o == FlushOutcome(f, Cache, db)
    IN /\ f.st # "free"
       /\ listing' = o.c.listing
       /\ lastUpdate' = o.c.lastUpdate
       /\ db' = o.db
       /\ files' = [files EXCEPT ![h] = o.f]
       /\ last' = Call("flush", o.res, o.warn)
       /\ rt' = IF rt.h = h \/ o.wfid # 0 THEN RtReset ELSE RtKeep
       /\ UNCHANGED <<now, openfiles, dbList, thrVars>>

Close(h) ==
    LET f == files[h]
        o == CloseOutcome(f, Cache, db, openfiles)
    IN /\ f.st # "free"
       /\ listing' = o.c.listing
       /\ lastUpdate' = o.c.lastUpdate
       /\ db' = o.db
       /\ files' = [files EXCEPT ![h] = o.f]
       /\ openfiles' = o.of
       /\ last' = Call("close", o.res, o.warn)
       /\ rt' = IF rt.st # "off" /\ rt.h = h
                THEN IF rt.st = "written" /\ o.res = "ok" /\ o.wfid # 0
                     THEN [rt EXCEPT !.st = "closed", !.h = 0, !.wbFid = o.wfid]
                     ELSE RtIdle
                ELSE IF o.wfid # 0 THEN RtReset ELSE RtKeep
       /\ UNCHANGED <<now, dbList, thrVars>>

\* a call of operation op whose _getlisting finds the cache expired and
\* whose listing query raises; the exception leaves the operation at once
RefreshFails(op) ==
    /\ Expired(now, lastUpdate)
    /\ LET g == GetListingFailed(Cache)
       IN /\ listing' = g.listing
          /\ lastUpdate' = g.lastUpdate
    /\ last' = Call(op, "DBError", "none")
    /\ rt' = RtKeep
    /\ UNCHANGED <<now, openfiles, files, dbList, db, thrVars>>

----------------------------------------------------------------------------
(* The environment: time passes, the database changes *)

Tick ==
    /\ now < MaxTime
    /\ now' = now + 1
    /\ UNCHANGED <<lastUpdate, listing, openfiles, files, dbList, db, last, rt,
                   thrVars>>

ExtSetListing(L) ==
    /\ L # dbList
    /\ dbList' = L
    /\ UNCHANGED <<now, lastUpdate, listing, openfiles, files, db, last, rt,
                   thrVars>>

ExtSetRow(fid, v) ==
    /\ v # db[fid]
    /\ db' = [db EXCEPT ![fid] = v]
    /\ rt' = RtReset
    /\ UNCHANGED <<now, lastUpdate, listing, openfiles, files, dbList, last,
                   thrVars>>

----------------------------------------------------------------------------
(* _getlisting called by several threads, statement by statement.  The    *)
(* threads share self.cur: execute replaces its result set, and iterating *)
(* it takes the next row whoever asked for it.                            *)

seqVars == <<openfiles, files, db, last, rt>>

\* a row of the listing query, as opposed to a row of the read query
IsListRow(row) == "path" \in DOMAIN row

\* the result set of the read query for fid
ReadRows(store, fid) ==
    IF store[fid] = NoRow THEN <<>>
    ELSE IF store[fid] = ManyRows THEN <<[data |-> <<>>], [data |-> <<>>]>>
    ELSE <<[data |-> store[fid]]>>

\* str() of a fid
StrOfFid(fid) == IF fid = 1 THEN <<"1">> ELSE <<"2">>

\* row[0]: the first column of a row
FirstColumn(row) == IF IsListRow(row) THEN StrOfFid(row.fid) ELSE row.data

\* tloc: the call a thread is in, the arguments and locals of its open, the
\* rows its last execute returned, and how the call ended
NoLoc ==
    [op |-> "list", path |-> <<>>, mode |-> ModeR, fid |-> 0, own |-> <<>>,
     data |-> <<>>, res |-> "none"]

TCall(t) ==
    /\ tpc[t] = "idle"
    /\ tpc' = [tpc EXCEPT ![t] = "check"]
    /\ tloc' = [tloc EXCEPT ![t] = NoLoc]
    /\ UNCHANGED <<now, lastUpdate, listing, dbList, tacc, tret, cur, curRowcount>>
    /\ UNCHANGED seqVars

\* if time.time()-self.lastUpdate > 1
TCheck(t) ==
    /\ tpc[t] = "check"
    /\ tpc' = [tpc EXCEPT ![t] = IF Expired(now, lastUpdate) THEN "stamp" ELSE "ret"]
    /\ UNCHANGED <<now, lastUpdate, listing, dbList, tacc, tret, cur,
                   curRowcount, tloc>>
    /\ UNCHANGED seqVars

\* self.lastUpdate = time.time()
TStamp(t) ==
    /\ tpc[t] = "stamp"
    /\ lastUpdate' = now
    /\ tpc' = [tpc EXCEPT ![t] = "exec"]
    /\ UNCHANGED <<now, listing, dbList, tacc, tret, cur, curRowcount, tloc>>
    /\ UNCHANGED seqVars

\* self.cur.execute(self.listcmd)
TExecute(t) ==
    /\ tpc[t] = "exec"
    /\ cur' = dbList
    /\ curRowcount' = Len(dbList)
    /\ tacc' = [tacc EXCEPT ![t] = <<>>]
    /\ tloc' = [tloc EXCEPT ![t].own = dbList]
    /\ tpc' = [tpc EXCEPT ![t] = "fetch"]
    /\ UNCHANGED <<now, lastUpdate, listing, dbList, tret>>
    /\ UNCHANGED seqVars

\* for row in self.cur: one more row
TFetch(t) ==
    /\ tpc[t] = "fetch"
    /\ cur # <<>>
    /\ IsListRow(Head(cur))
    /\ tacc' = [tacc EXCEPT ![t] = Append(tacc[t], Head(cur))]
    /\ cur' = Tail(cur)
    /\ UNCHANGED <<now, lastUpdate, listing, dbList, tpc, tret, curRowcount, tloc>>
    /\ UNCHANGED seqVars

\* for row in self.cur: the next row has no column path, row['path'] raises
\* KeyError, which open turns into ResourceNotFoundError
TFetchForeign(t) ==
    /\ tpc[t] = "fetch"
    /\ cur # <<>>
    /\ ~IsListRow(Head(cur))
    /\ cur' = Tail(cur)
    /\ tacc' = [tacc EXCEPT ![t] = <<>>]
    /\ tpc' = [tpc EXCEPT ![t] = "idle"]
    /\ tloc' = [tloc EXCEPT ![t].res =
                   IF tloc[t].op = "open" THEN "NotFound" ELSE "KeyError"]
    /\ UNCHANGED <<now, lastUpdate, listing, dbList, tret, curRowcount>>
    /\ UNCHANGED seqVars

\* the cursor is exhausted: self.listing = dict(...)
TStore(t) ==
    /\ tpc[t] = "fetch"
    /\ cur = <<>>
    /\ listing' = MakeListing(tacc[t])
    /\ tacc' = [tacc EXCEPT ![t] = <<>>]
    /\ tpc' = [tpc EXCEPT ![t] = "ret"]
    /\ UNCHANGED <<now, lastUpdate, dbList, tret, cur, curRowcount, tloc>>
    /\ UNCHANGED seqVars

\* return self.listing, to the caller or into open
TReturn(t) ==
    /\ tpc[t] = "ret"
    /\ tret' = [tret EXCEPT ![t] = listing]
    /\ tpc' = [tpc EXCEPT ![t] = IF tloc[t].op = "open" THEN "lookup" ELSE "idle"]
    /\ UNCHANGED <<now, lastUpdate, listing, dbList, tacc, cur, curRowcount, tloc>>
    /\ UNCHANGED seqVars

----------------------------------------------------------------------------
(* open called by a thread, statement by statement, on the same cursor.   *)
(* Thread t keeps its DBFile in files[t].                                  *)

othVars == <<now, lastUpdate, listing, dbList, db, last, rt, tacc, tret>>

\* open(path, mode) is entered: path = self.abspath(path), _getlisting()
OCall(t, p, mode) ==
    /\ tpc[t] = "idle"
    /\ files[t].st = "free"
    /\ tloc' = [tloc EXCEPT ![t] = [NoLoc EXCEPT !.op = "open",
                                                 !.path = abspath(p),
                                                 !.mode = mode]]
    /\ tpc' = [tpc EXCEPT ![t] = "check"]
    /\ UNCHANGED <<openfiles, files, cur, curRowcount>>
    /\ UNCHANGED othVars

\* fid = self._getlisting()[path]['fid'], or ResourceNotFoundError
OLookup(t) ==
    /\ tpc[t] = "lookup"
    /\ LET l == Lookup(tret[t], tloc[t].path) IN
       IF l.found
       THEN /\ tloc' = [tloc EXCEPT ![t].fid = l.fid]
            /\ tpc' = [tpc EXCEPT ![t] = "oexec"]
       ELSE /\ tloc' = [tloc EXCEPT ![t].res = "NotFound"]
            /\ tpc' = [tpc EXCEPT ![t] = "idle"]
    /\ UNCHANGED <<openfiles, files, cur, curRowcount>>
    /\ UNCHANGED othVars

\* self.cur.execute(readcmd, (fid,))
OExecute(t) ==
    /\ tpc[t] = "oexec"
    /\ cur' = ReadRows(db, tloc[t].fid)
    /\ curRowcount' = Len(ReadRows(db, tloc[t].fid))
    /\ tloc' = [tloc EXCEPT ![t].own = ReadRows(db, tloc[t].fid)]
    /\ tpc' = [tpc EXCEPT ![t] = "zero"]
    /\ UNCHANGED <<openfiles, files>>
    /\ UNCHANGED othVars

\* if self.cur.rowcount==0: the message reads cur.command, a NameError
OCheckZero(t) ==
    /\ tpc[t] = "zero"
    /\ IF curRowcount = 0
       THEN /\ tloc' = [tloc EXCEPT ![t].res = "NameError"]
            /\ tpc' = [tpc EXCEPT ![t] = "idle"]
       ELSE /\ tpc' = [tpc EXCEPT ![t] = "many"]
            /\ UNCHANGED tloc
    /\ UNCHANGED <<openfiles, files, cur, curRowcount>>
    /\ UNCHANGED othVars

\* if self.cur.rowcount>1: the same
OCheckMany(t) ==
    /\ tpc[t] = "many"
    /\ IF curRowcount > 1
       THEN /\ tloc' = [tloc EXCEPT ![t].res = "NameError"]
            /\ tpc' = [tpc EXCEPT ![t] = "idle"]
       ELSE /\ tpc' = [tpc EXCEPT ![t] = "ofetch"]
            /\ UNCHANGED tloc
    /\ UNCHANGED <<openfiles, files, cur, curRowcount>>
    /\ UNCHANGED othVars

\* data = self.cur.fetchone()[0]; fetchone() is None on an exhausted cursor
OFetch(t) ==
    /\ tpc[t] = "ofetch"
    /\ IF cur = <<>>
       THEN /\ tloc' = [tloc EXCEPT ![t].res = "TypeError"]
            /\ tpc' = [tpc EXCEPT ![t] = "idle"]
            /\ cur' = cur
       ELSE /\ tloc' = [tloc EXCEPT ![t].data = FirstColumn(Head(cur))]
            /\ tpc' = [tpc EXCEPT ![t] = "create"]
            /\ cur' = Tail(cur)
    /\ UNCHANGED <<openfiles, files, curRowcount>>
    /\ UNCHANGED othVars

\* s = DBFile(data, path, mode, self); self.openfiles[path] = s; return s
OCreate(t) ==
    /\ tpc[t] = "create"
    /\ files' = [files EXCEPT ![t] =
                    DBFileInit(tloc[t].data, tloc[t].path, tloc[t].mode)]
    /\ openfiles' = With(openfiles, tloc[t].path, t)
    /\ tloc' = [tloc EXCEPT ![t].res = "ok"]
    /\ tpc' = [tpc EXCEPT ![t] = "idle"]
    /\ UNCHANGED <<cur, curRowcount>>
    /\ UNCHANGED othVars

----------------------------------------------------------------------------
(* Specifications *)

Alias == <<Row(1, Str_ab, 3), Row(1, Str_byid, 3)>>
Moved == <<Row(2, Str_ab, 4), Row(1, Str_byid, 3)>>

InitWith(lists, stores, rt0) ==
    /\ now = TTL + 1
    /\ lastUpdate = 0
    /\ listing = EmptyListing
    /\ openfiles = [k \in {} |-> 0]
    /\ files = [h \in Handles |-> FreeFile]
    /\ dbList \in lists
    /\ db \in stores
    /\ last = NoCall
    /\ rt = rt0
    /\ tpc = [t \in Threads |-> "idle"]
    /\ tacc = [t \in Threads |-> <<>>]
    /\ tret = [t \in Threads |-> EmptyListing]
    /\ cur = <<>>
    /\ curRowcount = 0
    /\ tloc = [t \in Threads |-> NoLoc]

\* Spec: the listing cache and the path queries, with one file in use
Init == InitWith(ListingResults, {[f \in Fids |-> <<"x">>]}, RtOff)

PathArgs == {Str_ab, Str_dotdot, Str_root, Str_c}

Next ==
    \/ \E p \in PathArgs : IsFile(p)
    \/ \E p \in PathArgs : IsDir(p)
    \/ \E p \in PathArgs : GetInfo(p)
    \/ \E d \in BOOLEAN, f \in BOOLEAN : ListDir(Str_root, d, f)
    \/ \E p \in PathArgs : Open(p, ModeRW, 1)
    \/ Write(1, <<"x">>)
    \/ Flush(1)
    \/ Close(1)
    \/ Tick
    \/ \E L \in ListingResults : ExtSetListing(L)

Spec == Init /\ [][Next]_vars

\* SpecFile: the life of DBFiles on one path, the table changing under them
InitFile == InitWith({Alias}, {[f \in Fids |-> <<"x">>]}, RtOff)

NextFile ==
    \/ \E m \in Modes, h \in Handles : Open(Str_ab, m, h)
    \/ \E h \in Handles, d \in Content : Write(h, d)
    \/ \E h \in Handles : Flush(h)
    \/ \E h \in Handles : Close(h)
    \/ GetInfo(Str_ab)
    \/ \E v \in {<<"x">>, NoRow} : ExtSetRow(1, v)

SpecFile == InitFile /\ [][NextFile]_vars

\* SpecRT: write through one path, read back, the listing changing meanwhile
InitRT == InitWith({Alias, Moved}, [Fids -> Content], RtIdle)

NextRT ==
    \/ \E p \in {Str_ab, Str_byid}, m \in {ModeR, ModeRW} : Open(p, m, 1)
    \/ \E d \in Content : Write(1, d)
    \/ Close(1)
    \/ Tick
    \/ \E L \in {Alias, Moved} : ExtSetListing(L)

SpecRT == InitRT /\ [][NextRT]_vars

----------------------------------------------------------------------------
(* Claims *)

NumQ(q, kind) == Cardinality({i \in DOMAIN q : q[i] = kind})

\* the mapping holds exactly the rows, the last row of a path winning
ExactlyRows(lst, rows) ==
    /\ DOMAIN lst = {abspath(rows[i].path) : i \in DOMAIN rows}
    /\ \A k \in DOMAIN lst :
          \E i \in DOMAIN rows :
             /\ abspath(rows[i].path) = k
             /\ \A j \in DOMAIN rows : abspath(rows[j].path) = k => j <= i
             /\ lst[k] = [size |-> rows[i].size, fid |-> rows[i].fid]

\* C1: for a path whose normalized form is not a key of the snapshot the
\* call works on, isfile returns false and open raises NotFound for every
\* mode, issuing no read query and leaving openfiles and the DBFiles as
\* they were.
C1_AbsentPath ==
    \A p \in RawPaths :
       LET i == IsFileOutcome(p, Cache) IN
       abspath(p) \notin DOMAIN i.c.listing =>
          /\ i.val = FALSE
          /\ \A m \in Modes, h \in Handles :
                LET o == OpenOutcome(p, m, h, Cache) IN
                /\ o.res = "NotFound"
                /\ NumQ(o.c.q, "read") = 0
                /\ o.openfiles = openfiles
                /\ o.files = files

\* C1 witness: an open has just failed with NotFound on a non-empty listing
C1_Witness ==
    /\ last = Call("open", "NotFound", "none")
    /\ listing # EmptyListing
    /\ lastUpdate > 0

\* the calls that consult the listing, each as the cache it leaves
ListingCalls ==
    {IsFileOutcome(p, Cache).c : p \in RawPaths}
    \cup {IsDirOutcome(p, Cache).c : p \in RawPaths}
    \cup {GetInfoOutcome(p, Cache).c : p \in RawPaths}
    \cup {ListDirOutcome(p, d, f, Cache).c : p \in RawPaths, d \in BOOLEAN, f \in BOOLEAN}
    \cup {OpenOutcome(p, m, h, Cache).c : p \in RawPaths, m \in Modes, h \in Handles}
    \cup {FlushOutcome(files[h], Cache, db).c :
             h \in {x \in Handles : /\ files[x].st = "open"
                                    /\ files[x].modified
                                    /\ files[x].mode # ModeR}}

\* C7: a call that consults the listing issues the listing query exactly
\* when now - lastUpdate > 1; the refresh then replaces the mapping by
\* exactly the rows of the query (a record not among them is gone) and
\* stamps it with now; otherwise the mapping and its stamp stay as they are.
C7_TTLRefresh ==
    \A c \in ListingCalls :
       IF now - lastUpdate > 1
       THEN /\ NumQ(c.q, "list") = 1
            /\ ExactlyRows(c.listing, dbList)
            /\ c.lastUpdate = now
       ELSE /\ NumQ(c.q, "list") = 0
            /\ c.listing = listing
            /\ c.lastUpdate = lastUpdate

\* C7 witness: after a second refresh the path of the open file is gone
C7_Witness ==
    /\ lastUpdate > TTL + 1
    /\ files[1].st = "open"
    /\ files[1].path \notin DOMAIN listing
    /\ listing # EmptyListing

\* C10: "/" is a directory in every reachable state: isdir("/") is true and
\* getinfo("/") succeeds with the directory mode.
C10_RootIsDir ==
    /\ IsDirOutcome(Str_root, Cache).val = TRUE
    /\ GetInfoOutcome(Str_root, Cache).res = "ok"
    /\ GetInfoOutcome(Str_root, Cache).val = [st_mode |-> 493]

InUse == {h \in Handles : files[h].st # "free"}

\* C2: a DBFile never issues more write-back queries than it had write()
\* calls; while it is not modified, flush and close issue none; and of two
\* flush calls in a row the second issues one only if the first issued none.
C2_NoSpuriousWriteBack ==
    \A h \in InUse :
       LET f == files[h]
           o1 == FlushOutcome(f, Cache, db)
           o2 == FlushOutcome(o1.f, [o1.c EXCEPT !.q = <<>>], o1.db)
           oc == CloseOutcome(f, Cache, db, openfiles)
       IN /\ f.pending >= 0
          /\ ~f.modified => /\ NumQ(o1.c.q, "write") = 0
                            /\ NumQ(oc.c.q, "write") = 0
          /\ NumQ(o1.c.q, "write") + NumQ(o2.c.q, "write") <= 1

\* C2 witness: after two writes and one write-back a flush has just found
\* the DBFile unmodified
C2_Witness ==
    /\ last.op = "flush"
    /\ \E h \in InUse : /\ files[h].st = "open"
                        /\ files[h].pending > 0
                        /\ ~files[h].modified

OpenOn(path) == {h \in Handles : files[h].st = "open" /\ files[h].path = path}

\* C5: while a DBFile on a listed path is open and not yet closed, getinfo
\* reports the buffer length of an open DBFile on that path; with none open
\* it reports the cached size.
C5_SizeWhileOpen ==
    \A p \in RawPaths :
       LET path == abspath(p)
           o == GetInfoOutcome(p, Cache)
       IN (o.res = "ok" /\ path \in DOMAIN o.c.listing) =>
             IF OpenOn(path) # {}
             THEN \E h \in OpenOn(path) : o.val.size = Len(files[h].buf)
             ELSE o.val.size = o.c.listing[path].size

\* C8: when the write-back query of a flush modifies no row, flush and
\* close still return normally, exactly one write query is issued, the
\* modified flag is cleared, and close removes the path from openfiles.
C8_LostWriteBackSwallowed ==
    \A h \in InUse :
       LET f == files[h]
           o == FlushOutcome(f, Cache, db)
           oc == CloseOutcome(f, Cache, db, openfiles)
       IN (o.wfid # 0 /\ rowcount(db, o.wfid) = 0) =>
             /\ o.res = "ok"
             /\ NumQ(o.c.q, "write") = 1
             /\ ~o.f.modified
             /\ o.db = db
             /\ oc.res = "ok"
             /\ NumQ(oc.c.q, "write") = 1
             /\ oc.f.st = "closed"
             /\ ~oc.f.modified
             /\ f.path \notin DOMAIN oc.of

\* C8 witness: a close has just returned normally after losing its write
C8_Witness ==
    /\ last = Call("close", "ok", "lost")
    /\ \E h \in InUse : files[h].st = "closed" /\ ~files[h].modified

\* C9: on a DBFile opened in mode r every write raises and changes
\* nothing; the DBFile is never modified; flush and close issue no query
\* at all and leave the table alone.
C9_ReadOnly ==
    \A h \in InUse :
       files[h].mode = ModeR =>
          LET f == files[h]
              o == FlushOutcome(f, Cache, db)
              oc == CloseOutcome(f, Cache, db, openfiles)
          IN /\ \A d \in Content :
                   WriteOutcome(f, d) = [res |-> "ResourceInvalid", f |-> f]
             /\ ~f.modified
             /\ f.pending = 0
             /\ o.res = "ok" /\ o.c.q = <<>> /\ o.db = db /\ o.f = f
             /\ oc.res = "ok" /\ oc.c.q = <<>> /\ oc.db = db

\* C9 witness: a write on an open mode-r DBFile has just been refused
C9_Witness ==
    /\ last = Call("write", "ResourceInvalid", "none")
    /\ \E h \in InUse : files[h].mode = ModeR /\ files[h].st = "open"

\* C3: open(P, r+), write(data), close, open(P, r), P resolving to the same
\* record at the open, the write-back and the second open, and the table
\* untouched from outside: the second DBFile holds exactly data.
C3_RoundTrip ==
    (/\ rt.st = "reopened"
     /\ rt.path2 = rt.path
     /\ rt.fid = rt.wbFid
     /\ rt.wbFid = rt.fid2) => rt.got = rt.data

\* C3 witness: a round trip whose data is shorter than the old content
C3_Witness ==
    /\ rt.st = "reopened"
    /\ rt.path2 = rt.path
    /\ rt.fid = rt.wbFid
    /\ rt.wbFid = rt.fid2
    /\ Len(rt.data) < Len(rt.old)
    /\ lastUpdate > TTL + 1

\* C4: data written through one path and closed is what an open in mode r
\* of another path returns, when the write-back and that open resolve
\* their paths to the same record.
C4_Aliasing ==
    (/\ rt.st = "reopened"
     /\ rt.path2 # rt.path
     /\ rt.wbFid = rt.fid2) => rt.got = rt.data

\* C4 witness: new content written through one path was read through another
C4_Witness ==
    /\ rt.st = "reopened"
    /\ rt.path2 # rt.path
    /\ rt.wbFid = rt.fid2
    /\ rt.data # rt.old

\* SpecC: threads inside _getlisting
InitC == InitWith(ListingResults, {[f \in Fids |-> <<"x">>]}, RtOff)

NextC ==
    \/ \E t \in Threads : TCall(t)
    \/ \E t \in Threads : TCheck(t)
    \/ \E t \in Threads : TStamp(t)
    \/ \E t \in Threads : TExecute(t)
    \/ \E t \in Threads : TFetch(t)
    \/ \E t \in Threads : TStore(t)
    \/ \E t \in Threads : TReturn(t)
    \/ Tick
    \/ \E L \in ListingResults : ExtSetListing(L)

SpecC == InitC /\ [][NextC]_vars

\* the snapshots a listing query can produce as a whole
CompleteSnapshots == {MakeListing(L) : L \in ListingResults}

Refreshing == {t \in Threads : tpc[t] = "fetch"}

\* C6: at most one thread at a time is between issuing the listing query
\* and storing the rebuilt mapping, and the mapping a caller gets is always a
\* complete snapshot, the previous one or the new one.
C6_RefreshSerialized ==
    /\ Cardinality(Refreshing) <= 1
    /\ listing \in CompleteSnapshots
    /\ \A t \in Threads : tret[t] \in CompleteSnapshots

\* the second half of C6 alone
C6_NoPartialSnapshot ==
    /\ listing \in CompleteSnapshots
    /\ \A t \in Threads : tret[t] \in CompleteSnapshots

----------------------------------------------------------------------------
(* SpecDir: files and directories of listings with nested and look-alike   *)
(* paths                                                                   *)

Nested == <<Row(1, Str_abc, 3), Row(2, Str_def, 4)>>
FileAndDir == <<Row(2, Str_a, 4), Row(1, Str_ab, 3)>>

DirListings == {<<>>, Alias, Nested, FileAndDir}

DirArgs == {Str_root, Str_a, Str_ab, Str_byid, Str_de, Str_d, Str_abc, Str_c}

InitDir == InitWith(DirListings, {[f \in Fids |-> <<"x">>]}, RtOff)

NextDir ==
    \/ \E p \in DirArgs : IsFile(p)
    \/ \E p \in DirArgs : IsDir(p)
    \/ \E p \in DirArgs : GetInfo(p)
    \/ \E p \in DirArgs, d \in BOOLEAN, f \in BOOLEAN : ListDir(p, d, f)
    \/ Tick
    \/ \E L \in DirListings : ExtSetListing(L)

SpecDir == InitDir /\ [][NextDir]_vars

\* the proper prefixes of key k that end just before a "/" and are not empty
BoundaryPrefixes(k) ==
    {SubSeq(k, 1, i - 1) : i \in {j \in 2..Len(k) : k[j] = "/"}}

\* C11: in the snapshot a call works on, every key is a file and each of
\* its non-empty proper prefixes taken at a "/" is a directory; and a path
\* other than the root is a directory exactly when some key starts with the
\* normalized path followed by "/" (sharing leading characters is not enough).
C11_FilesAndDirs ==
    LET g == GetListing(Cache).listing IN
    /\ \A k \in DOMAIN g :
          /\ IsFileOutcome(k, Cache).val
          /\ \A Q \in BoundaryPrefixes(k) : IsDirOutcome(Q, Cache).val
    /\ \A Q \in DirArgs :
          abspath(Q) # Str_root =>
             (IsDirOutcome(Q, Cache).val
                <=> \E k \in DOMAIN g : startswith(k, abspath(Q) \o <<"/">>))

\* C11 witness: isdir has just been asked on a snapshot where /ab/c is a
\* key, so that /a is no directory, and /d and /d/e are directories
C11_Witness ==
    /\ last.op = "isdir"
    /\ listing = MakeListing(Nested)
    /\ ~Expired(now, lastUpdate)
    /\ ~IsDirOutcome(Str_a, Cache).val
    /\ IsDirOutcome(Str_de, Cache).val
    /\ IsDirOutcome(Str_d, Cache).val

----------------------------------------------------------------------------
(* SpecRows: open against a table whose read query matches no row, one    *)
(* row or several rows                                                     *)

RowStates == {<<"x">>, NoRow, ManyRows}

InitRows == InitWith({Alias}, {[f \in Fids |-> <<"x">>]}, RtOff)

NextRows ==
    \/ \E p \in {Str_ab, Str_byid, Str_c}, m \in Modes : Open(p, m, 1)
    \/ Close(1)
    \/ \E fid \in Fids, v \in RowStates : ExtSetRow(fid, v)

SpecRows == InitRows /\ [][NextRows]_vars

\* C12: an open of a listed path whose read query matches no row raises
\* NotFound, and one whose read query matches several rows raises
\* AmbiguousRecord; either way one read query is issued, no DBFile is
\* created and openfiles stays as it was.
C12_RowCountAnomalies ==
    \A p \in RawPaths, m \in Modes, h \in Handles :
       LET o == OpenOutcome(p, m, h, Cache)
           l == Lookup(o.c.listing, abspath(p))
       IN (l.found /\ rowcount(db, l.fid) # 1) =>
             /\ rowcount(db, l.fid) = 0 => o.res = "NotFound"
             /\ rowcount(db, l.fid) > 1 => o.res = "AmbiguousRecord"
             /\ NumQ(o.c.q, "read") = 1
             /\ o.files = files
             /\ o.openfiles = openfiles

----------------------------------------------------------------------------
(* Closing *)

OpenHandles == {h \in Handles : files[h].st = "open"}

\* close on DBFile f, and a second close right after it
TwoCloses(f) ==
    LET c1 == CloseOutcome(f, Cache, db, openfiles)
        c2 == CloseOutcome(c1.f, [c1.c EXCEPT !.q = <<>>], c1.db, c1.of)
    IN [first |-> c1, second |-> c2]

\* what C13 says of the two calls
CloseLifecycle(f, t) ==
    /\ t.first.res = "ok"
    /\ NumQ(t.first.c.q, "write") = (IF f.modified /\ f.mode # ModeR THEN 1 ELSE 0)
    /\ t.first.f.st = "closed"
    /\ t.first.f.buf = <<>>
    /\ f.path \notin DOMAIN t.first.of
    /\ t.second.res = "ok"
    /\ NumQ(t.second.c.q, "write") = 0
    /\ t.second.of = t.first.of

\* C13: close on an open DBFile flushes (one write query exactly when the
\* DBFile is modified and not in mode r), releases the buffer and removes
\* the path from openfiles; a second close returns normally and issues no
\* write query.
C13_CloseLifecycle ==
    \A h \in OpenHandles : CloseLifecycle(files[h], TwoCloses(files[h]))

\* the same for the calls whose flush finds the path in the snapshot
C13_CloseWhenPathListed ==
    \A h \in OpenHandles :
       LET f == files[h] IN
       abspath(f.path) \in DOMAIN GetListing(Cache).listing =>
          CloseLifecycle(f, TwoCloses(f))

----------------------------------------------------------------------------
(* Listing a directory *)

HasSep(s) == \E i \in 1..Len(s) : s[i] = "/"

\* what is left of the keys below directory D, a normalized path
Remainders(lst, D) ==
    LET P == IF D = Str_root THEN D ELSE D \o <<"/">>
    IN {SubSeq(k, Len(P) + 1, Len(k)) : k \in {x \in DOMAIN lst : startswith(x, P)}}

\* the names C14 expects from list(D) under the given options
ExpectedNames(lst, D, dirs_only, files_only) ==
    LET R == Remainders(lst, D) IN
    IF files_only THEN {r \in R : ~HasSep(r)}
    ELSE IF dirs_only THEN {split(r)[1] : r \in {x \in R : HasSep(x)}}
    ELSE {split(r)[1] : r \in R}

ListDirCalls ==
    {<<p, d, f>> : p \in DirArgs, d \in BOOLEAN, f \in BOOLEAN} \
        {<<p, TRUE, TRUE>> : p \in DirArgs}

\* C14: listdir returns exactly the first segments of the remainders of the
\* keys below the directory (with files_only the remainders without a
\* separator, with dirs_only the first segments of deeper keys), each name
\* once and without a trailing "/".
C14_ListDir ==
    \A a \in ListDirCalls :
       LET o == ListDirOutcome(a[1], a[2], a[3], Cache)
       IN /\ DOMAIN o.val = ExpectedNames(o.c.listing, abspath(a[1]), a[2], a[3])
          /\ \A n \in DOMAIN o.val : o.val[n] = 1 /\ ~HasSep(n)

\* the names alone, however often each is returned
C14_ListDirNames ==
    \A a \in ListDirCalls :
       LET o == ListDirOutcome(a[1], a[2], a[3], Cache)
       IN /\ DOMAIN o.val = ExpectedNames(o.c.listing, abspath(a[1]), a[2], a[3])
          /\ \A n \in DOMAIN o.val : ~HasSep(n)

----------------------------------------------------------------------------
(* Writing *)

\* C15: write(data) on an open DBFile not in mode r, its position being c,
\* leaves the buffer as its first c bytes followed by data with nothing
\* after them, the position at c + len(data) and modified set; a DBFile
\* just opened in mode r+ has position 0, so that its first write leaves
\* exactly data.
C15_WriteSemantics ==
    /\ \A h \in OpenHandles, d \in Content :
          LET f == files[h]
              o == WriteOutcome(f, d)
          IN f.mode # ModeR =>
                /\ o.res = "ok"
                /\ o.f.buf = SubSeq(f.buf, 1, f.pos) \o d
                /\ o.f.pos = f.pos + Len(d)
                /\ Len(o.f.buf) = o.f.pos
                /\ o.f.modified
    /\ \A p \in PathArgs, h \in Handles :
          LET o == OpenOutcome(p, ModeRW, h, Cache)
          IN o.res = "ok" =>
                /\ o.files[h].pos = 0
                /\ \A d \in Content : WriteOutcome(o.files[h], d).f.buf = d

\* C15 witness: on a DBFile opened in mode r+ a second write has just been
\* put at the position the first one left
C15_Witness ==
    /\ last = Call("write", "ok", "none")
    /\ \E h \in OpenHandles :
          /\ files[h].mode = ModeRW
          /\ files[h].pending = 2
          /\ files[h].pos = 2
          /\ files[h].buf = <<"x", "x">>

----------------------------------------------------------------------------
(* Writing back *)

\* C16: the write query of a DBFile goes to the record its open resolved
\* the path to and read the buffer from, whatever the listing maps the path
\* to by then.
C16_WriteBackFid ==
    rt.st \in {"closed", "reopened"} => rt.wbFid = rt.fid

\* the open DBFiles whose flush has something to write back
Dirty == {h \in OpenHandles : files[h].modified /\ files[h].mode # ModeR}

\* C17: the flush of a modified DBFile looks its path up in the snapshot
\* _getlisting returns at that moment.  If the path is not in it, flush
\* raises NotFound, issues no write query and leaves modified set; close
\* then raises too, keeps the buffer and leaves openfiles as it was, so the
\* DBFile a later close finds is the same modified DBFile.  If the path is
\* in it, the write query goes to the fid the snapshot gives.
C17_FlushReResolves ==
    \A h \in Dirty :
       LET f == files[h]
           g == GetListing(Cache)
           o == FlushOutcome(f, Cache, db)
           oc == CloseOutcome(f, Cache, db, openfiles)
       IN IF abspath(f.path) \notin DOMAIN g.listing
          THEN /\ o.res = "NotFound"
               /\ NumQ(o.c.q, "write") = 0
               /\ o.f.modified
               /\ o.db = db
               /\ oc.res = "NotFound"
               /\ NumQ(oc.c.q, "write") = 0
               /\ oc.f = f
               /\ oc.of = openfiles
               /\ oc.db = db
          ELSE /\ NumQ(o.c.q, "write") = 1
               /\ o.wfid = g.listing[abspath(f.path)].fid
               /\ NumQ(oc.c.q, "write") = 1

\* C17 witness: a close has just raised NotFound after a refresh dropped
\* the path; the DBFile is still open, modified and registered
C17_Witness ==
    /\ last = Call("close", "NotFound", "none")
    /\ 1 \in Dirty
    /\ files[1].buf # <<>>
    /\ files[1].path \in DOMAIN openfiles
    /\ files[1].path \notin DOMAIN listing
    /\ lastUpdate > TTL + 1

----------------------------------------------------------------------------
(* SpecOpenC: threads inside open and inside _getlisting *)

InitOpenC == InitWith({Alias}, {[f \in Fids |-> <<"x">>]}, RtOff)

NextOpenC ==
    \/ \E t \in Threads : TCall(t)
    \/ \E t \in Threads : TCheck(t)
    \/ \E t \in Threads : TStamp(t)
    \/ \E t \in Threads : TExecute(t)
    \/ \E t \in Threads : TFetch(t)
    \/ \E t \in Threads : TFetchForeign(t)
    \/ \E t \in Threads : TStore(t)
    \/ \E t \in Threads : TReturn(t)
    \/ \E t \in Threads : OCall(t, Str_ab, ModeR)
    \/ \E t \in Threads : OLookup(t)
    \/ \E t \in Threads : OExecute(t)
    \/ \E t \in Threads : OCheckZero(t)
    \/ \E t \in Threads : OCheckMany(t)
    \/ \E t \in Threads : OFetch(t)
    \/ \E t \in Threads : OCreate(t)
    \/ Tick

SpecOpenC == InitOpenC /\ [][NextOpenC]_vars

IsPrefix(s, r) == Len(s) <= Len(r) /\ s = SubSeq(r, 1, Len(s))

\* C18: whatever the interleaving, the rows a listing refresh has taken from
\* the cursor are rows of its own listing query, in order, and the buffer
\* of a DBFile that open created holds the row its own read query returned.
C18_OwnQueryResults ==
    \A t \in Threads :
       /\ tpc[t] = "fetch" => IsPrefix(tacc[t], tloc[t].own)
       /\ (tloc[t].op = "open" /\ tloc[t].res = "ok") =>
             /\ tloc[t].own # <<>>
             /\ files[t].buf = FirstColumn(tloc[t].own[1])

\* the DBFiles alone
C18_OpenSeedsOwnRow ==
    \A t \in Threads :
       (tloc[t].op = "open" /\ tloc[t].res = "ok") =>
          /\ tloc[t].own # <<>>
          /\ files[t].buf = FirstColumn(tloc[t].own[1])

----------------------------------------------------------------------------
(* SpecFail: listing queries that may fail *)

ListingOps == {"isfile", "isdir", "listdir", "getinfo", "open"}

InitFail == InitWith({<<>>, Alias, Moved}, {[f \in Fids |-> <<"x">>]}, RtOff)

NextFail ==
    \/ \E p \in {Str_ab, Str_c} : IsFile(p)
    \/ \E op \in ListingOps : RefreshFails(op)
    \/ Tick
    \/ \E L \in {<<>>, Alias, Moved} : ExtSetListing(L)

SpecFail == InitFail /\ [][NextFail]_vars

\* C19: a call whose listing query fails leaves the mapping and its stamp
\* as they were, so that the cache is still expired for the next call.
C19_FailedRefreshLeavesCache ==
    /\ [][last'.res = "DBError" =>
             (listing' = listing /\ lastUpdate' = lastUpdate)]_vars
    /\ [](last.res = "DBError" => Expired(now, lastUpdate))

\* the entries alone
C19_FailedRefreshKeepsEntries ==
    [][last'.res = "DBError" => listing' = listing]_vars

----------------------------------------------------------------------------
(* Seeding the buffer *)

\* C20: an open that succeeds has found the path in the snapshot and issued
\* one read query; in modes r, r+ and a the buffer of the new DBFile is the
\* content the query returned, in mode w it is empty; the DBFile is not
\* modified, and closing a mode-w DBFile right away issues no write query
\* and leaves the table as it is.
C20_SeedingByMode ==
    \A p \in RawPaths, m \in Modes, h \in Handles :
       LET o == OpenOutcome(p, m, h, Cache)
           f == o.files[h]
           oc == CloseOutcome(f, [o.c EXCEPT !.q = <<>>], db, o.openfiles)
       IN o.res = "ok" =>
             /\ abspath(p) \in DOMAIN o.c.listing
             /\ NumQ(o.c.q, "read") = 1
             /\ f.buf = (IF m = ModeW THEN <<>> ELSE db[o.fid])
             /\ ~f.modified
             /\ m = ModeW => /\ oc.res = "ok"
                             /\ NumQ(oc.c.q, "write") = 0
                             /\ oc.db = db

\* C20 witness: a DBFile opened in mode w on a record that holds content
\* has just been closed unmodified, and the record still holds the content
C20_Witness ==
    /\ last = Call("close", "ok", "none")
    /\ files[1].st = "closed"
    /\ files[1].mode = ModeW
    /\ files[1].path = abspath(Str_ab)
    /\ ~files[1].modified
    /\ db[1] = <<"x">>

TypeOK ==
    /\ now \in (TTL + 1)..MaxTime
    /\ lastUpdate \in 0..MaxTime
    /\ \A h \in Handles : files[h].pos <= Len(files[h].buf)

====
